---- MODULE Spec2Model ----
(***************************************************************************)
(* Offscreen EGL rendering: the single-context program (offscreen_egl.cpp) *)
(* and the two-session program (multithreads.cpp).                         *)
(*                                                                         *)
(* Each thread of control executes its source as a table of instructions, *)
(* one per driver call (or branch), in source order.  The EGL/GL driver is *)
(* modelled by its documented state: the display, the surfaces and         *)
(* contexts, the per-thread EGL error and current context, and per-context *)
(* GL objects and error flag.  A driver call may fail nondeterministically.*)
(* Calling GL with no current context is undefined: it either does nothing *)
(* or takes the process down.  pthread_create is taken to succeed.         *)
(*                                                                         *)
(* The pixel-size functions glUtilsPixelBitSize and pixelDataSize, which   *)
(* no session calls, have a specification of their own (PixelSpec) that    *)
(* applies them to a range of arguments with 32-bit arithmetic.            *)
(***************************************************************************)
EXTENDS Integers, Sequences, FiniteSets, TLC

\* Saturation point of the per-thread draw / readback / image-write counters.
MaxCount == 2
\* Largest number of configurations the driver reports.
MaxConfigs == 1
\* Most driver calls that fail of themselves in one execution.
MaxFaults == 1
\* Largest GL object name the driver hands out.
MaxName == 4

Threads == {"M", "A", "B"}
Workers == {"A", "B"}
Programs == {"multi", "single"}

NoContext == "NoContext"
NoSurface == "NoSurface"
NoDisplay == "NoDisplay"
TheDisplay == "dpy"
NoConfig == "NoConfig"
TheConfig == "cfg"

\* An instruction: the call, its argument (a label, a variable or a file),
\* its source line, and for a branch the number of instructions skipped.
I(op, a, line) == [op |-> op, a |-> a, line |-> line, k |-> 0]
J(op, a, line, k) == [op |-> op, a |-> a, line |-> line, k |-> k]

\* multithreads.cpp CompileProgram, lines 121-162 (with LoadShader 82-116).
CompileProgramCode ==
  << I("LoadShader", "vertexShader", 129),
     I("LoadShader", "fragmentShader", 130),
     J("glCreateProgram", "", 133, 3),
     I("glAttachShader", "vertexShader", 138),
     I("glAttachShader", "fragmentShader", 139),
     I("glLinkProgram", "", 142) >>

\* offscreen_egl.cpp init_triangle, lines 199-257 (with LoadShader 160-194).
InitTriangleCode ==
  << I("LoadShader", "vertexShader", 224),
     I("LoadShader", "fragmentShader", 225),
     J("glCreateProgram", "", 228, 3),
     I("glAttachShader", "vertexShader", 233),
     I("glAttachShader", "fragmentShader", 234),
     I("glLinkProgram", "", 237) >>

\* multithreads.cpp draw_triangle, lines 167-206.
DrawTriangleCodeMulti ==
  CompileProgramCode \o
  << I("glMisc", "glViewport", 193),
     I("glClear", "", 196),
     I("glUseProgram", "", 199),
     I("glMisc", "glVertexAttribPointer", 202),
     I("glMisc", "glEnableVertexAttribArray", 203),
     I("glDraw", "tri", 205) >>

\* offscreen_egl.cpp draw_triangle, lines 262-285.
DrawTriangleCodeSingle ==
  InitTriangleCode \o
  << I("glMisc", "glViewport", 272),
     I("glClear", "", 275),
     I("glUseProgram", "", 278),
     I("glMisc", "glVertexAttribPointer", 281),
     I("glMisc", "glEnableVertexAttribArray", 282),
     I("glDraw", "tri", 284) >>

\* multithreads.cpp CreateSimpleTexture2D, lines 215-243.
CreateSimpleTexture2DCode ==
  << I("glMisc", "glPixelStorei", 218),
     I("glGenTextures", "mTexture", 222),
     I("glBindTexture", "mTexture", 225),
     I("glTexImage2D", "2x2", 236),
     I("glMisc", "glTexParameteri", 239),
     I("glMisc", "glTexParameteri", 240) >>

\* multithreads.cpp main up to the creation of the workers, lines 583-646.
MainSetupCode ==
  << I("eglGetDisplay", "", 583),
     I("assertEGLError", "eglGetDisplay", 584),
     I("eglInitialize", "", 586),
     I("assertEGLError", "eglInitialize", 587),
     I("eglGetConfigs", "", 590),
     I("assertEGLError", "eglGetConfigs", 591),
     J("eglChooseConfig", "list", 603, 2),
     I("assertEGLError", "eglChooseConfig", 605),
     I("return", "", 606),
     J("eglChooseConfig", "one", 609, 2),
     I("assertEGLError", "eglChooseConfig", 610),
     I("return", "", 611),
     I("eglBindAPI", "", 614),
     I("assertEGLError", "eglBindAPI", 615),
     I("glMisc", "glGetIntegerv", 645),
     I("glMisc", "glGetIntegerv", 646) >>

\* A main that starts the workers before it initialises the display.
MainCodeMultiEarlyThreads ==
  SubSeq(MainSetupCode, 1, 2) \o
  << I("pthread_create", "A", 661),
     I("sleep", "", 662),
     I("pthread_create", "B", 663) >>
  \o SubSeq(MainSetupCode, 3, Len(MainSetupCode)) \o
  << I("pthread_join", "A", 664),
     I("pthread_join", "B", 665),
     I("eglTerminate", "", 667),
     I("assertEGLError", "eglTerminate", 668),
     I("return", "", 670) >>

\* A main that does not wait for thread B.
MainCodeMultiNoJoinB ==
  MainSetupCode \o
  << I("pthread_create", "A", 661),
     I("sleep", "", 662),
     I("pthread_create", "B", 663),
     I("pthread_join", "A", 664),
     I("eglTerminate", "", 667),
     I("assertEGLError", "eglTerminate", 668),
     I("return", "", 670) >>

\* A main that creates thread B first.
MainCodeMultiBFirst ==
  MainSetupCode \o
  << I("pthread_create", "B", 663),
     I("sleep", "", 662),
     I("pthread_create", "A", 661),
     I("pthread_join", "A", 664),
     I("pthread_join", "B", 665),
     I("eglTerminate", "", 667),
     I("assertEGLError", "eglTerminate", 668),
     I("return", "", 670) >>

\* multithreads.cpp main, lines 571-671.
MainCodeMulti ==
  MainSetupCode \o
  << I("pthread_create", "A", 661),
     I("sleep", "", 662),
     I("pthread_create", "B", 663),
     I("pthread_join", "A", 664),
     I("pthread_join", "B", 665),
     I("eglTerminate", "", 667),
     I("assertEGLError", "eglTerminate", 668),
     I("return", "", 670) >>

\* The render-target creation shared by thread_func_a (305-334),
\* thread_func_b (492-521) and the single program's main (358-387);
\* base is the line of glGenFramebuffers.
RenderTargetCode(base) ==
  << I("glGenFramebuffers", "frameBuffer", base),
     I("glBindFramebuffer", "frameBuffer", base + 1),
     I("assertOpenGLError", "glBindFramebuffer", base + 2),
     I("glGenTextures", "tex", base + 8),
     I("glBindTexture", "tex", base + 10),
     I("glTexImage2D", "full", base + 11),
     I("assertOpenGLError", "glTexImage2D", base + 12),
     I("glMisc", "glTexParameteri", base + 14),
     I("assertOpenGLError", "glTexParameteri GL_TEXTURE_MIN_FILTER", base + 15),
     I("glMisc", "glTexParameteri", base + 16),
     I("assertOpenGLError", "glTexParameteri GL_TEXTURE_MAG_FILTER", base + 17),
     I("glMisc", "glTexParameteri", base + 18),
     I("assertOpenGLError", "glTexParameteri GL_TEXTURE_WRAP_S", base + 19),
     I("glMisc", "glTexParameteri", base + 20),
     I("assertOpenGLError", "glTexParameteri GL_TEXTURE_WRAP_T", base + 21),
     I("glBindTexture", "0", base + 22),
     I("assertOpenGLError", "glBindTexture", base + 23),
     I("glFramebufferTexture2D", "tex", base + 27),
     I("assertOpenGLError", "glFramebufferTexture2D", base + 28) >>

\* The body of thread_func_a's while loop, lines 384-441.
LoopBodyCodeA ==
  << I("glBindFramebuffer", "frameBuffer", 396),
     I("assertOpenGLError", "glBindFramebuffer", 397),
     I("glMisc", "glViewport", 400),
     I("glClear", "", 403),
     I("glUseProgram", "", 406),
     I("glMisc", "glVertexAttribPointer", 409),
     I("glMisc", "glVertexAttribPointer", 411),
     I("glMisc", "glEnableVertexAttribArray", 414),
     I("glMisc", "glEnableVertexAttribArray", 415),
     I("glMisc", "glActiveTexture", 418),
     I("glBindTexture", "mTexture", 419),
     I("glMisc", "glUniform1i", 422),
     I("eglQuery", "eglGetCurrentDisplay", 423),
     I("eglQuery", "eglGetCurrentSurface", 424),
     I("eglQuery", "eglGetCurrentContext", 425),
     I("glDraw", "quad", 427),
     I("assertOpenGLError", "glDrawElements", 428),
     I("glBindTexture", "0", 429),
     I("glMisc", "glPixelStorei", 434),
     I("assertOpenGLError", "glPixelStorei", 435),
     I("glReadPixels", "", 436),
     I("assertOpenGLError", "glReadPixels", 437),
     I("stbi_write_png", "img.png", 438),
     I("glBindFramebuffer", "0", 440) >>

\* multithreads.cpp thread_func_a, lines 245-456.
ThreadCodeA ==
  << I("eglCreatePbufferSurface", "", 283),
     I("assertEGLError", "eglCreatePbufferSurface", 284),
     I("eglCreateContext", "", 291),
     I("assertEGLError", "eglCreateContext", 292),
     J("eglMakeCurrent", "if", 296, 2),
     I("assertEGLError", "eglMakeCurrent", 297),
     I("return", "", 299) >>
  \o RenderTargetCode(306) \o
  << I("glBindFramebuffer", "0", 335) >>
  \o CompileProgramCode \o
  << J("ifProgram", "", 365, 1),
     I("return", "", 367),
     I("glMisc", "glGetAttribLocation", 371),
     I("glMisc", "glGetAttribLocation", 372),
     I("glMisc", "glGetUniformLocation", 375) >>
  \o CreateSimpleTexture2DCode \o
  << I("glMisc", "glClearColor", 380),
     J("while", "", 383, Len(LoopBodyCodeA) + 1) >>
  \o LoopBodyCodeA \o
  << J("endwhile", "", 442, Len(LoopBodyCodeA) + 1),
     I("glDeleteFramebuffers", "frameBuffer", 443),
     I("glDeleteTextures", "tex", 444),
     I("glDeleteProgram", "", 445),
     I("glDeleteTextures", "mTexture", 446),
     I("eglDestroySurface", "", 447),
     I("assertEGLError", "eglDestroySurface", 448),
     I("eglDestroyContext", "", 449),
     I("assertEGLError", "eglDestroyContext", 450),
     I("return", "", 455) >>

\* A teardown that destroys the surface before it deletes the GL objects.
ReadbackTeardownSurfaceFirst(base, file) ==
  << I("glBindFramebuffer", "frameBuffer", base),
     I("assertOpenGLError", "glBindFramebuffer", base + 1),
     I("glReadPixels", "", base + 5),
     I("assertOpenGLError", "glReadPixels", base + 6),
     I("stbi_write_png", file, base + 8),
     I("glBindFramebuffer", "0", base + 10),
     I("eglDestroySurface", "", IF base = 545 THEN 563 ELSE 441),
     I("assertEGLError", "eglDestroySurface", IF base = 545 THEN 564 ELSE 442),
     I("glDeleteFramebuffers", "frameBuffer", IF base = 545 THEN 560 ELSE 438),
     I("glDeleteTextures", "tex", IF base = 545 THEN 561 ELSE 439),
     I("eglDestroyContext", "", IF base = 545 THEN 566 ELSE 444),
     I("assertEGLError", "eglDestroyContext", IF base = 545 THEN 567 ELSE 445) >>

\* The readback and teardown shared by thread_func_b (545-568) and the
\* single program's main (424-445); base is the line of glBindFramebuffer.
ReadbackTeardownCode(base, file) ==
  << I("glBindFramebuffer", "frameBuffer", base),
     I("assertOpenGLError", "glBindFramebuffer", base + 1),
     I("glReadPixels", "", base + 5),
     I("assertOpenGLError", "glReadPixels", base + 6),
     I("stbi_write_png", file, base + 8),
     I("glBindFramebuffer", "0", base + 10),
     I("glDeleteFramebuffers", "frameBuffer", IF base = 545 THEN 560 ELSE 438),
     I("glDeleteTextures", "tex", IF base = 545 THEN 561 ELSE 439),
     I("eglDestroySurface", "", IF base = 545 THEN 563 ELSE 441),
     I("assertEGLError", "eglDestroySurface", IF base = 545 THEN 564 ELSE 442),
     I("eglDestroyContext", "", IF base = 545 THEN 566 ELSE 444),
     I("assertEGLError", "eglDestroyContext", IF base = 545 THEN 567 ELSE 445) >>

\* A thread_func_b that draws and reads back twice.
ThreadCodeBTwice ==
  << I("eglCreateContext", "", 474),
     I("assertEGLError", "eglCreateContext", 475),
     I("eglCreatePbufferSurface", "", 483),
     I("assertEGLError", "eglCreatePbufferSurface", 484),
     I("eglMakeCurrent", "", 486),
     I("assertEGLError", "eglMakeCurrent", 487) >>
  \o RenderTargetCode(493)
  \o DrawTriangleCodeMulti
  \o SubSeq(ReadbackTeardownCode(545, "img2.png"), 1, 5)
  \o SubSeq(DrawTriangleCodeMulti, 7, 12)
  \o ReadbackTeardownCode(545, "img2.png")
  \o << I("return", "", 568) >>

\* A thread_func_b that creates its surface before its context.
ThreadCodeBSurfaceFirst ==
  << I("eglCreatePbufferSurface", "", 483),
     I("assertEGLError", "eglCreatePbufferSurface", 484),
     I("eglCreateContext", "", 474),
     I("assertEGLError", "eglCreateContext", 475),
     I("eglMakeCurrent", "", 486),
     I("assertEGLError", "eglMakeCurrent", 487) >>
  \o RenderTargetCode(493)
  \o DrawTriangleCodeMulti
  \o ReadbackTeardownCode(545, "img2.png")
  \o << I("return", "", 568) >>

\* A thread_func_b that writes its image to session A's file.
ThreadCodeBSameFile ==
  << I("eglCreateContext", "", 474),
     I("assertEGLError", "eglCreateContext", 475),
     I("eglCreatePbufferSurface", "", 483),
     I("assertEGLError", "eglCreatePbufferSurface", 484),
     I("eglMakeCurrent", "", 486),
     I("assertEGLError", "eglMakeCurrent", 487) >>
  \o RenderTargetCode(493)
  \o DrawTriangleCodeMulti
  \o ReadbackTeardownCode(545, "img.png")
  \o << I("return", "", 568) >>

\* A thread_func_b that unbinds its framebuffer after creating the render
\* target and leaves draw_triangle as it is.
ThreadCodeBUnbinds ==
  << I("eglCreateContext", "", 474),
     I("assertEGLError", "eglCreateContext", 475),
     I("eglCreatePbufferSurface", "", 483),
     I("assertEGLError", "eglCreatePbufferSurface", 484),
     I("eglMakeCurrent", "", 486),
     I("assertEGLError", "eglMakeCurrent", 487) >>
  \o RenderTargetCode(493)
  \o << I("glBindFramebuffer", "0", 522) >>
  \o DrawTriangleCodeMulti
  \o ReadbackTeardownCode(545, "img2.png")
  \o << I("return", "", 568) >>

\* multithreads.cpp thread_func_b, lines 458-569.
ThreadCodeB ==
  << I("eglCreateContext", "", 474),
     I("assertEGLError", "eglCreateContext", 475),
     I("eglCreatePbufferSurface", "", 483),
     I("assertEGLError", "eglCreatePbufferSurface", 484),
     I("eglMakeCurrent", "", 486),
     I("assertEGLError", "eglMakeCurrent", 487) >>
  \o RenderTargetCode(493)
  \o DrawTriangleCodeMulti
  \o ReadbackTeardownCode(545, "img2.png")
  \o << I("return", "", 568) >>

\* offscreen_egl.cpp main, lines 287-451.
MainCodeSingle ==
  << I("eglGetDisplay", "", 301),
     I("assertEGLError", "eglGetDisplay", 302),
     I("eglInitialize", "", 304),
     I("assertEGLError", "eglInitialize", 305),
     I("eglGetConfigs", "", 308),
     I("assertEGLError", "eglGetConfigs", 309),
     J("eglChooseConfig", "list", 321, 2),
     I("assertEGLError", "eglChooseConfig", 323),
     I("return", "", 324),
     J("eglChooseConfig", "one", 327, 2),
     I("assertEGLError", "eglChooseConfig", 328),
     I("return", "", 329),
     I("eglBindAPI", "", 332),
     I("assertEGLError", "eglBindAPI", 333),
     I("eglCreateContext", "", 340),
     I("assertEGLError", "eglCreateContext", 341),
     I("eglCreatePbufferSurface", "", 349),
     I("assertEGLError", "eglCreatePbufferSurface", 350),
     I("eglMakeCurrent", "", 352),
     I("assertEGLError", "eglMakeCurrent", 353) >>
  \o RenderTargetCode(359) \o
  << I("glMisc", "glGetIntegerv", 394),
     I("glMisc", "glGetIntegerv", 395) >>
  \o DrawTriangleCodeSingle
  \o ReadbackTeardownCode(424, "img.png") \o
  << I("eglTerminate", "", 447),
     I("assertEGLError", "eglTerminate", 448),
     I("return", "", 450) >>

\* The instruction table thread t runs in program p.
Code(p, t) ==
  IF p = "multi"
  THEN CASE t = "M" -> MainCodeMulti
         [] t = "A" -> ThreadCodeA
         [] t = "B" -> ThreadCodeB
  ELSE IF t = "M" THEN MainCodeSingle ELSE << >>


VARIABLES
  prog,        \* which program runs: "multi" or "single"
  proc,        \* "running", "exited" (exit(-1)), "returned" (main returned), "crashed"
  exitInfo,    \* for exit(-1): <<thread, label of the assert, phase of the failed call>>
  pc,          \* each thread's position in its instruction table
  tstate,      \* each thread: "idle" (not created), "run", "ret" (function returned)
  joined,      \* the workers main has joined
  dpy,         \* driver state of the default display: "none", "uninit", "init", "term"
  display,     \* main's EGLDisplay handle, copied into glCtx.dpy
  config,      \* main's EGLConfig, copied into glCtx.config
  allConfigCount, \* main's allConfigCount
  eglErr,      \* each thread's EGL error: "ok" or the phase of the failed call
  surf,        \* each surface (named by the thread that created it): "none", "live", "dead"
  ctx,         \* each context (named by the thread that created it): "none", "live", "dead"
  current,     \* the context current on each thread
  curSurf,     \* the surface bound with it
  loc,         \* each thread's local variables
  gl,          \* each context's GL state
  buffer,      \* each thread's pixel buffer
  files,       \* the image files written
  draws,       \* draw calls each thread issued (saturating)
  reads,       \* readbacks each thread issued (saturating)
  writes,      \* image writes each thread issued (saturating)
  termCalls,   \* eglTerminate calls that released the display
  liveAtTerm,  \* surfaces and contexts still live when the display was released
  faults,      \* driver calls that failed of themselves (capped by MaxFaults)
  foreign,     \* a thread used a context or surface another thread created
  setupFailed, \* threads that saw a setup-phase driver call fail
  lateCalls,   \* threads that issued a draw, readback or image write after that
  afterTerm,   \* the driver calls issued after eglTerminate was called
  hist,        \* each thread's lifecycle calls in the order it issued them
  last,        \* the GL/EGL calls each thread's latest step consisted of
  pix          \* the arguments and results of the pixel-size functions

vars == << prog, proc, exitInfo, pc, tstate, joined, dpy, display, config, allConfigCount,
           eglErr, surf, ctx, current, curSurf, loc, gl, buffer, files,
           draws, reads, writes, termCalls, liveAtTerm, faults, foreign,
           setupFailed, lateCalls, afterTerm, hist, last, pix >>

Names == 0..MaxName
NoImage == << "-", "none" >>
Zeros == << "-", "zeros" >>
FileNames == {"img.png", "img2.png"}
NoFile == << "-", NoImage >>

\* The locals of a thread function: handles start as 0 / EGL_NO_*.
InitLoc ==
  [surface |-> NoSurface, context |-> NoContext, frameBuffer |-> 0, tex |-> 0,
   mTexture |-> 0, program |-> 0, vertexShader |-> 0, fragmentShader |-> 0,
   programObject |-> 0]

\* A fresh context's GL state.
InitGL ==
  [err |-> "none", boundFb |-> 0, boundTex |-> 0, useProg |-> 0,
   fbs |-> {}, texs |-> {}, shaders |-> {}, progs |-> {}, linked |-> {},
   attached |-> {}, attach |-> [n \in Names |-> 0],
   img |-> [n \in Names |-> NoImage], defImg |-> NoImage]

\* The pixel-size functions have not been called.
NoPix ==
  [stage |-> "none", width |-> 0, height |-> 0, format |-> "GL_RGBA",
   type |-> "GL_UNSIGNED_BYTE", bits |-> 0, size |-> 0, stride |-> 0,
   bufferSize |-> 0]

InitProgram ==
  /\ prog \in Programs
  /\ proc = "running"
  /\ exitInfo = << >>
  /\ pc = [t \in Threads |-> 1]
  /\ tstate = [t \in Threads |-> IF t = "M" THEN "run" ELSE "idle"]
  /\ joined = {}
  /\ dpy = "none"
  /\ display = NoDisplay
  /\ config = NoConfig
  /\ allConfigCount = 0
  /\ eglErr = [t \in Threads |-> "ok"]
  /\ surf = [t \in Threads |-> "none"]
  /\ ctx = [t \in Threads |-> "none"]
  /\ current = [t \in Threads |-> NoContext]
  /\ curSurf = [t \in Threads |-> NoSurface]
  /\ loc = [t \in Threads |-> InitLoc]
  /\ gl = [c \in Threads |-> InitGL]
  /\ buffer = [t \in Threads |-> Zeros]
  /\ files = [f \in FileNames |-> NoFile]
  /\ draws = [t \in Threads |-> 0]
  /\ reads = [t \in Threads |-> 0]
  /\ writes = [t \in Threads |-> 0]
  /\ termCalls = 0
  /\ liveAtTerm = {}
  /\ faults = 0
  /\ foreign = FALSE
  /\ setupFailed = {}
  /\ lateCalls = {}
  /\ afterTerm = {}
  /\ hist = [t \in Threads |-> << >>]
  /\ last = [t \in Threads |-> << >>]

Init == InitProgram /\ pix = NoPix

\* Thread t is about to execute an instruction with operation op.
At(t, op) ==
  /\ proc = "running"
  /\ tstate[t] = "run"
  /\ pc[t] <= Len(Code(prog, t))
  /\ Code(prog, t)[pc[t]].op = op

Ins(t) == Code(prog, t)[pc[t]]

Bump(n) == IF n < MaxCount THEN n + 1 ELSE n

\* assertEGLError / assertOpenGLError: multithreads.cpp calls exit(-1),
\* offscreen_egl.cpp only prints.
AssertIsFatal(p) == p = "multi"


\* The tier of the spec's error taxonomy a driver call belongs to.
Phase(op) ==
  CASE op \in {"eglGetDisplay", "eglInitialize", "eglGetConfigs", "eglChooseConfig",
               "eglCreatePbufferSurface", "eglCreateContext",
               "eglMakeCurrent", "LoadShader", "glCreateProgram", "glAttachShader",
               "glLinkProgram"} -> "setup"
    [] op = "glDraw" -> "draw"
    [] op = "glReadPixels" -> "read"
    [] op \in {"glDeleteFramebuffers", "glDeleteTextures", "glDeleteProgram",
               "eglDestroySurface", "eglDestroyContext", "eglTerminate"} -> "teardown"
    [] OTHER -> "other"

\* Thread t moves past its instruction, skipping k more.
Adv(t, k) == pc' = [pc EXCEPT ![t] = @ + 1 + k]

\* The driver may fail a call of itself while the fault budget lasts.
FaultChoices == IF faults < MaxFaults THEN BOOLEAN ELSE {FALSE}
Outcomes == IF faults < MaxFaults THEN BOOLEAN ELSE {TRUE}

\* The calls that create, use and destroy a session's resources.
CreateOps == {"eglCreatePbufferSurface", "eglCreateContext", "glGenFramebuffers",
              "glGenTextures", "glCreateShader", "glCreateProgram"}
UseOps == {"eglMakeCurrent", "glDraw", "glReadPixels"}
DestroyOps == {"glDeleteFramebuffers", "glDeleteTextures", "glDeleteShader",
               "glDeleteProgram", "eglDestroySurface", "eglDestroyContext",
               "eglTerminate"}
LifecycleOps == CreateOps \cup UseOps \cup DestroyOps

\* A call as the history keeps it: the call, the context current on the
\* calling thread when it was issued, and a number that goes with it.
Ev(t, op, n) == << op, current[t], n >>

\* The history h with call e added.  The draw and readback of a loop are
\* kept once per run of iterations.
Log(h, e) ==
  IF /\ e[1] \in {"glDraw", "glReadPixels"}
     /\ \E i \in 1..Len(h) :
          /\ h[i] = e
          /\ \A j \in (i + 1)..Len(h) : h[j][1] \notin DestroyOps
  THEN h
  ELSE Append(h, e)

RECURSIVE LogAll(_, _)
LogAll(h, es) == IF es = << >> THEN h ELSE LogAll(Log(h, Head(es)), Tail(es))

IsLifecycle(e) == e[1] \in LifecycleOps

\* What every driver call records: a fault f of the driver's own, a failed
\* setup-phase call, a call issued after eglTerminate, and the calls es it
\* consists of.
NoteEv(t, f, failed, op, es) ==
  /\ faults' = IF f THEN faults + 1 ELSE faults
  /\ setupFailed' = IF failed /\ Phase(op) = "setup" THEN setupFailed \cup {t}
                    ELSE setupFailed
  /\ afterTerm' = IF termCalls > 0 THEN afterTerm \cup {op} ELSE afterTerm
  /\ hist' = [hist EXCEPT ![t] = LogAll(@, SelectSeq(es, IsLifecycle))]
  /\ last' = [last EXCEPT ![t] = es]

Note(t, f, failed, op) ==
  NoteEv(t, f, failed, op, IF op \in LifecycleOps THEN << Ev(t, op, 0) >> ELSE << >>)

\* The display handle a thread passes: main's own, or glCtx.dpy, a copy of it.
DpyOk == display = TheDisplay /\ dpy = "init"

glVars == << loc, gl >>
outVars == << buffer, files, draws, reads, writes, lateCalls >>
runVars == << prog, proc, exitInfo, tstate, joined, pix >>

------------------------------------------------------------------------------
(* EGL calls *)

\* eglGetDisplay(EGL_DEFAULT_DISPLAY): EGL_NO_DISPLAY without an EGL error when
\* no display is available.
EglGetDisplay(t) ==
  /\ At(t, "eglGetDisplay")
  /\ \E ok \in Outcomes :
       /\ display' = IF ok THEN TheDisplay ELSE NoDisplay
       /\ dpy' = IF ok /\ dpy = "none" THEN "uninit" ELSE dpy
       /\ Note(t, ~ok, ~ok, "eglGetDisplay")
  /\ eglErr' = [eglErr EXCEPT ![t] = "ok"]
  /\ Adv(t, 0)
  /\ UNCHANGED << config, allConfigCount, surf, ctx, current, curSurf, termCalls,
                  liveAtTerm, foreign >>
  /\ UNCHANGED << glVars, outVars, runVars >>

EglInitialize(t) ==
  /\ At(t, "eglInitialize")
  /\ \E f \in FaultChoices :
       LET ok == display = TheDisplay /\ ~f IN
       /\ dpy' = IF ok THEN "init" ELSE dpy
       /\ eglErr' = [eglErr EXCEPT ![t] = IF ok THEN "ok" ELSE "setup"]
       /\ Note(t, f, ~ok, "eglInitialize")
  /\ Adv(t, 0)
  /\ UNCHANGED << display, config, allConfigCount, surf, ctx, current, curSurf,
                  termCalls, liveAtTerm, foreign >>
  /\ UNCHANGED << glVars, outVars, runVars >>

EglGetConfigs(t) ==
  /\ At(t, "eglGetConfigs")
  /\ \E f \in FaultChoices, n \in 0..MaxConfigs :
       LET ok == DpyOk /\ ~f IN
       /\ allConfigCount' = IF ok THEN n ELSE allConfigCount
       /\ eglErr' = [eglErr EXCEPT ![t] = IF ok THEN "ok" ELSE "setup"]
       /\ Note(t, f, ~ok, "eglGetConfigs")
  /\ Adv(t, 0)
  /\ UNCHANGED << dpy, display, config, surf, ctx, current, curSurf,
                  termCalls, liveAtTerm, foreign >>
  /\ UNCHANGED << glVars, outVars, runVars >>

\* if (!eglChooseConfig(...) || num_config == 0 [|| num_config > allConfigCount])
\* { assertEGLError; return 0; }
EglChooseConfig(t) ==
  /\ At(t, "eglChooseConfig")
  /\ \E f \in FaultChoices, n \in 0..MaxConfigs :
       LET ret == DpyOk /\ ~f
           bad == \/ ~ret
                  \/ n = 0
                  \/ (Ins(t).a = "list" /\ n > allConfigCount)
       IN
       /\ config' = IF Ins(t).a = "one" /\ ret /\ n > 0 THEN TheConfig ELSE config
       /\ eglErr' = [eglErr EXCEPT ![t] = IF ret THEN "ok" ELSE "setup"]
       /\ Note(t, f, bad, "eglChooseConfig")
       /\ Adv(t, IF bad THEN 0 ELSE Ins(t).k)
  /\ UNCHANGED << dpy, display, allConfigCount, surf, ctx, current, curSurf,
                  termCalls, liveAtTerm, foreign >>
  /\ UNCHANGED << glVars, outVars, runVars >>

EglBindAPI(t) ==
  /\ At(t, "eglBindAPI")
  /\ \E f \in FaultChoices :
       /\ eglErr' = [eglErr EXCEPT ![t] = IF f THEN "other" ELSE "ok"]
       /\ Note(t, f, f, "eglBindAPI")
  /\ Adv(t, 0)
  /\ UNCHANGED << dpy, display, config, allConfigCount, surf, ctx, current, curSurf,
                  termCalls, liveAtTerm, foreign >>
  /\ UNCHANGED << glVars, outVars, runVars >>

EglCreatePbufferSurface(t) ==
  /\ At(t, "eglCreatePbufferSurface")
  /\ \E f \in FaultChoices :
       LET ok == DpyOk /\ config = TheConfig /\ ~f IN
       /\ surf' = IF ok THEN [surf EXCEPT ![t] = "live"] ELSE surf
       /\ loc' = [loc EXCEPT ![t].surface = IF ok THEN t ELSE NoSurface]
       /\ eglErr' = [eglErr EXCEPT ![t] = IF ok THEN "ok" ELSE "setup"]
       /\ Note(t, f, ~ok, "eglCreatePbufferSurface")
  /\ Adv(t, 0)
  /\ UNCHANGED << dpy, display, config, allConfigCount, ctx, current, curSurf,
                  termCalls, liveAtTerm, foreign, gl >>
  /\ UNCHANGED << outVars, runVars >>

EglCreateContext(t) ==
  /\ At(t, "eglCreateContext")
  /\ \E f \in FaultChoices :
       LET ok == DpyOk /\ config = TheConfig /\ ~f IN
       /\ ctx' = IF ok THEN [ctx EXCEPT ![t] = "live"] ELSE ctx
       /\ loc' = [loc EXCEPT ![t].context = IF ok THEN t ELSE NoContext]
       /\ eglErr' = [eglErr EXCEPT ![t] = IF ok THEN "ok" ELSE "setup"]
       /\ Note(t, f, ~ok, "eglCreateContext")
  /\ Adv(t, 0)
  /\ UNCHANGED << dpy, display, config, allConfigCount, surf, current, curSurf,
                  termCalls, liveAtTerm, foreign, gl >>
  /\ UNCHANGED << outVars, runVars >>

\* A context handle kept in one place for both sessions.
MakeCurrentContextShared(t) == loc["A"].context

\* The context handle thread t passes to eglMakeCurrent: its own local.
MakeCurrentContextArg(t) == loc[t].context

\* eglMakeCurrent(dpy, surface, surface, context).  The driver refuses a
\* context or surface that is current on another thread (EGL_BAD_ACCESS).
EglMakeCurrent(t) ==
  /\ At(t, "eglMakeCurrent")
  /\ \E f \in FaultChoices :
       LET s == loc[t].surface
           c == MakeCurrentContextArg(t)
           ok == /\ DpyOk /\ ~f
                 /\ c # NoContext /\ ctx[c] = "live"
                 /\ s # NoSurface /\ surf[s] = "live"
                 /\ \A u \in Threads \ {t} : current[u] # c /\ curSurf[u] # s
       IN
       /\ current' = IF ok THEN [current EXCEPT ![t] = c] ELSE current
       /\ curSurf' = IF ok THEN [curSurf EXCEPT ![t] = s] ELSE curSurf
       /\ eglErr' = [eglErr EXCEPT ![t] = IF ok THEN "ok" ELSE "setup"]
       /\ foreign' = (foreign \/ (ok /\ (c # t \/ s # t)))
       /\ Note(t, f, ~ok, "eglMakeCurrent")
       /\ Adv(t, IF ok THEN Ins(t).k ELSE 0)
  /\ UNCHANGED << dpy, display, config, allConfigCount, surf, ctx,
                  termCalls, liveAtTerm >>
  /\ UNCHANGED << glVars, outVars, runVars >>

EglDestroySurface(t) ==
  /\ At(t, "eglDestroySurface")
  /\ \E f \in FaultChoices :
       LET s == loc[t].surface
           ok == DpyOk /\ ~f /\ s # NoSurface /\ surf[s] = "live"
       IN
       /\ surf' = IF ok THEN [surf EXCEPT ![s] = "dead"] ELSE surf
       /\ eglErr' = [eglErr EXCEPT ![t] = IF ok THEN "ok" ELSE "teardown"]
       /\ foreign' = (foreign \/ (ok /\ s # t))
       /\ Note(t, f, ~ok, "eglDestroySurface")
  /\ Adv(t, 0)
  /\ UNCHANGED << dpy, display, config, allConfigCount, ctx, current, curSurf,
                  termCalls, liveAtTerm >>
  /\ UNCHANGED << glVars, outVars, runVars >>

EglDestroyContext(t) ==
  /\ At(t, "eglDestroyContext")
  /\ \E f \in FaultChoices :
       LET c == loc[t].context
           ok == DpyOk /\ ~f /\ c # NoContext /\ ctx[c] = "live"
       IN
       /\ ctx' = IF ok THEN [ctx EXCEPT ![c] = "dead"] ELSE ctx
       /\ eglErr' = [eglErr EXCEPT ![t] = IF ok THEN "ok" ELSE "teardown"]
       /\ foreign' = (foreign \/ (ok /\ c # t))
       /\ Note(t, f, ~ok, "eglDestroyContext")
  /\ Adv(t, 0)
  /\ UNCHANGED << dpy, display, config, allConfigCount, surf, current, curSurf,
                  termCalls, liveAtTerm >>
  /\ UNCHANGED << glVars, outVars, runVars >>

\* The surfaces and contexts the program has created and not destroyed.
LiveObjects ==
  {<< "surface", u >> : u \in {v \in Threads : surf[v] = "live"}}
  \cup {<< "context", u >> : u \in {v \in Threads : ctx[v] = "live"}}

EglTerminate(t) ==
  /\ At(t, "eglTerminate")
  /\ \E f \in FaultChoices :
       LET ok == display = TheDisplay /\ ~f IN
       /\ dpy' = IF ok THEN "term" ELSE dpy
       /\ eglErr' = [eglErr EXCEPT ![t] = IF ok THEN "ok" ELSE "teardown"]
       /\ liveAtTerm' = IF ok THEN liveAtTerm \cup LiveObjects ELSE liveAtTerm
       /\ Note(t, f, ~ok, "eglTerminate")
  /\ termCalls' = termCalls + 1
  /\ Adv(t, 0)
  /\ UNCHANGED << display, config, allConfigCount, surf, ctx, current, curSurf,
                  foreign >>
  /\ UNCHANGED << glVars, outVars, runVars >>

\* eglGetCurrentDisplay / eglGetCurrentSurface / eglGetCurrentContext.
EglQuery(t) ==
  /\ At(t, "eglQuery")
  /\ eglErr' = [eglErr EXCEPT ![t] = "ok"]
  /\ Note(t, FALSE, FALSE, "eglQuery")
  /\ Adv(t, 0)
  /\ UNCHANGED << dpy, display, config, allConfigCount, surf, ctx, current, curSurf,
                  termCalls, liveAtTerm, foreign >>
  /\ UNCHANGED << glVars, outVars, runVars >>

\* assertEGLError(msg): eglGetError() returns and clears the thread's error.
AssertEGLError(t) ==
  /\ At(t, "assertEGLError")
  /\ eglErr' = [eglErr EXCEPT ![t] = "ok"]
  /\ Note(t, FALSE, FALSE, "assertEGLError")
  /\ IF eglErr[t] # "ok" /\ AssertIsFatal(prog)
     THEN /\ proc' = "exited"
          /\ exitInfo' = << t, Ins(t).a, eglErr[t] >>
          /\ pc' = pc
     ELSE /\ Adv(t, 0)
          /\ UNCHANGED << proc, exitInfo >>
  /\ UNCHANGED << pix, prog, tstate, joined, dpy, display, config, allConfigCount, surf, ctx,
                  current, curSurf, termCalls, liveAtTerm, foreign >>
  /\ UNCHANGED << glVars, outVars >>


------------------------------------------------------------------------------
(* GL calls.  GL acts on the context current on the calling thread; object  *)
(* names are per context (the contexts are created with EGL_NO_CONTEXT as   *)
(* share context).                                                           *)

\* The smallest name the context has not in use.
NewName(used) ==
  CHOOSE n \in 1..MaxName : n \notin used /\ \A m \in 1..(n - 1) : m \in used

\* The image a draw, clear or readback targets in GL state g: the default
\* framebuffer, the bound framebuffer's color attachment, or none when the
\* bound framebuffer is incomplete.
Complete(g) ==
  \/ g.boundFb = 0
  \/ /\ g.attach[g.boundFb] # 0
     /\ g.attach[g.boundFb] \in g.texs
     /\ g.img[g.attach[g.boundFb]] # NoImage

TargetImage(g) ==
  IF g.boundFb = 0 THEN g.defImg ELSE g.img[g.attach[g.boundFb]]

WithTarget(g, image) ==
  IF g.boundFb = 0 THEN [g EXCEPT !.defImg = image]
  ELSE [g EXCEPT !.img[g.attach[g.boundFb]] = image]

\* A GL call by thread t.  With no current context the call is undefined: the
\* process dies or the call does nothing.  With glerr (the driver's own fault
\* f, or a misuse) the call raises a GL
\* error (kept until glGetError) and has no other effect; otherwise the
\* context's state becomes g2.
GlCallEv(t, op, f, glerr, failed, g2, k, es) ==
  LET c == current[t] IN
  /\ NoteEv(t, f, failed \/ glerr \/ c = NoContext, op, es)
  /\ foreign' = (foreign \/ (c # NoContext /\ c # t))
  /\ IF c = NoContext
     THEN /\ \E crash \in BOOLEAN :
               /\ proc' = IF crash THEN "crashed" ELSE proc
               /\ pc' = IF crash THEN pc ELSE [pc EXCEPT ![t] = @ + 1 + k]
          /\ gl' = gl
     ELSE /\ proc' = proc
          /\ Adv(t, k)
          /\ gl' = [gl EXCEPT ![c] =
                      IF glerr
                      THEN [@ EXCEPT !.err = IF @ = "none" THEN Phase(op) ELSE @]
                      ELSE g2]
  /\ UNCHANGED << pix, prog, exitInfo, tstate, joined >>
  /\ UNCHANGED << dpy, display, config, allConfigCount, eglErr, surf, ctx, current,
                  curSurf, termCalls, liveAtTerm >>

GlCall(t, op, f, glerr, failed, g2, k) ==
  GlCallEv(t, op, f, glerr, failed, g2, k,
           IF op \in LifecycleOps THEN << Ev(t, op, 0) >> ELSE << >>)

\* The GL state the call acts on (a fresh one stands in when there is none).
G(t) == IF current[t] = NoContext THEN InitGL ELSE gl[current[t]]

\* The call has its effect: there is a context and no error was raised.
Eff(t, glerr) == current[t] # NoContext /\ ~glerr

\* The value of the handle argument a: the literal 0 or a local variable.
Arg(t, a) == IF a = "0" THEN 0 ELSE loc[t][a]

GlGenFramebuffers(t) ==
  /\ At(t, "glGenFramebuffers")
  /\ LET g == G(t)
         n == NewName(g.fbs)
     IN
     /\ GlCall(t, "glGenFramebuffers", FALSE, FALSE, FALSE, [g EXCEPT !.fbs = @ \cup {n}], 0)
     /\ IF current[t] # NoContext
        THEN loc' = [loc EXCEPT ![t].frameBuffer = n]
        ELSE \E garbage \in 0..1 : loc' = [loc EXCEPT ![t].frameBuffer = garbage]
  /\ UNCHANGED outVars

GlBindFramebuffer(t) ==
  /\ At(t, "glBindFramebuffer")
  /\ \E f \in FaultChoices :
       LET g == G(t)
           x == Arg(t, Ins(t).a)
       IN
       GlCall(t, "glBindFramebuffer", f, f, FALSE,
              [g EXCEPT !.boundFb = x,
                        !.fbs = IF x = 0 THEN @ ELSE @ \cup {x}], 0)
  /\ UNCHANGED << loc, outVars >>

GlGenTextures(t) ==
  /\ At(t, "glGenTextures")
  /\ LET g == G(t)
         n == NewName(g.texs)
     IN
     /\ GlCall(t, "glGenTextures", FALSE, FALSE, FALSE, [g EXCEPT !.texs = @ \cup {n}], 0)
     /\ IF current[t] # NoContext
        THEN loc' = [loc EXCEPT ![t][Ins(t).a] = n]
        ELSE \E garbage \in 0..1 : loc' = [loc EXCEPT ![t][Ins(t).a] = garbage]
  /\ UNCHANGED outVars

GlBindTexture(t) ==
  /\ At(t, "glBindTexture")
  /\ \E f \in FaultChoices :
       LET g == G(t)
           x == Arg(t, Ins(t).a)
       IN
       GlCall(t, "glBindTexture", f, f, FALSE,
              [g EXCEPT !.boundTex = x,
                        !.texs = IF x = 0 THEN @ ELSE @ \cup {x}], 0)
  /\ UNCHANGED << loc, outVars >>

\* glTexImage2D(GL_TEXTURE_2D, ...): storage for the bound texture; with
\* nullptr data ("full") the contents are undefined.
GlTexImage2D(t) ==
  /\ At(t, "glTexImage2D")
  /\ \E f \in FaultChoices :
       LET g == G(t)
           image == << t, IF Ins(t).a = "full" THEN "undef" ELSE "2x2" >>
       IN
       GlCall(t, "glTexImage2D", f, f, FALSE, [g EXCEPT !.img[g.boundTex] = image], 0)
  /\ UNCHANGED << loc, outVars >>

\* glFramebufferTexture2D(GL_FRAMEBUFFER, GL_COLOR_ATTACHMENT0, GL_TEXTURE_2D, tex, 0):
\* GL_INVALID_OPERATION when the default framebuffer is bound.
GlFramebufferTexture2D(t) ==
  /\ At(t, "glFramebufferTexture2D")
  /\ \E f \in FaultChoices :
       LET g == G(t)
           x == Arg(t, Ins(t).a)
           bad == g.boundFb = 0 \/ (x # 0 /\ x \notin g.texs)
       IN
       GlCall(t, "glFramebufferTexture2D", f, f \/ bad, FALSE,
              [g EXCEPT !.attach[g.boundFb] = x], 0)
  /\ UNCHANGED << loc, outVars >>

\* Calls that change no state the model keeps: glViewport, glTexParameteri,
\* glVertexAttribPointer, glEnableVertexAttribArray, glActiveTexture,
\* glUniform1i, glPixelStorei, glGetAttribLocation, glGetUniformLocation,
\* glClearColor, glGetIntegerv.
GlMisc(t) ==
  /\ At(t, "glMisc")
  /\ \E f \in FaultChoices : GlCall(t, "glMisc", f, f, FALSE, G(t), 0)
  /\ UNCHANGED << loc, outVars >>

\* glClear(GL_COLOR_BUFFER_BIT): GL_INVALID_FRAMEBUFFER_OPERATION on an
\* incomplete framebuffer.
GlClear(t) ==
  /\ At(t, "glClear")
  /\ \E f \in FaultChoices :
       LET g == G(t) IN
       GlCall(t, "glClear", f, f \/ ~Complete(g), FALSE,
              IF Complete(g) THEN WithTarget(g, << t, "clear" >>) ELSE g, 0)
  /\ UNCHANGED << loc, outVars >>

\* glUseProgram(program): 0 is accepted; a name that is no linked program is
\* an error.
GlUseProgram(t) ==
  /\ At(t, "glUseProgram")
  /\ \E f \in FaultChoices :
       LET g == G(t)
           p == loc[t].program
       IN
       GlCall(t, "glUseProgram", f, f \/ (p # 0 /\ p \notin g.linked), FALSE,
              [g EXCEPT !.useProg = p], 0)
  /\ UNCHANGED << loc, outVars >>

\* glDrawArrays / glDrawElements: with no program in use the result is
\* undefined but no error is raised.
GlDraw(t) ==
  /\ At(t, "glDraw")
  /\ \E f \in FaultChoices :
       LET g == G(t)
           image == << t, IF g.useProg = 0 THEN "garbage" ELSE Ins(t).a >>
       IN
       GlCallEv(t, "glDraw", f, f \/ ~Complete(g), FALSE,
                IF Complete(g) THEN WithTarget(g, image) ELSE g, 0,
                << Ev(t, "glDraw", g.useProg) >>)
  /\ draws' = [draws EXCEPT ![t] = Bump(@)]
  /\ lateCalls' = IF t \in setupFailed THEN lateCalls \cup {t} ELSE lateCalls
  /\ UNCHANGED << loc, buffer, files, reads, writes >>

\* glReadPixels(0, 0, width, height, GL_RGBA, GL_UNSIGNED_BYTE, buffer.data()).
GlReadPixels(t) ==
  /\ At(t, "glReadPixels")
  /\ \E f \in FaultChoices :
       LET g == G(t)
           glerr == f \/ ~Complete(g)
       IN
       /\ GlCall(t, "glReadPixels", f, glerr, FALSE, g, 0)
       /\ buffer' = IF Eff(t, glerr) THEN [buffer EXCEPT ![t] = TargetImage(g)]
                    ELSE buffer
  /\ reads' = [reads EXCEPT ![t] = Bump(@)]
  /\ lateCalls' = IF t \in setupFailed THEN lateCalls \cup {t} ELSE lateCalls
  /\ UNCHANGED << loc, files, draws, writes >>

\* The state after glDeleteFramebuffers(1, &x): a bound framebuffer falls
\* back to the default one.
AfterDeleteFramebuffer(g, x) ==
  IF x = 0 THEN g
  ELSE [g EXCEPT !.fbs = @ \ {x},
                 !.attach[x] = 0,
                 !.boundFb = IF @ = x THEN 0 ELSE @]

\* The state after glDeleteTextures(1, &x): the texture is unbound and
\* detached from the bound framebuffer; its storage lives on while another
\* framebuffer holds it.
AfterDeleteTexture(g, x) ==
  LET att == [n \in Names |-> IF n = g.boundFb /\ g.attach[n] = x THEN 0
                              ELSE g.attach[n]]
      held == \E n \in g.fbs : att[n] = x
  IN
  IF x = 0 THEN g
  ELSE [g EXCEPT !.texs = @ \ {x},
                 !.attach = att,
                 !.boundTex = IF @ = x THEN 0 ELSE @,
                 !.img[x] = IF held THEN @ ELSE NoImage]

\* The state after glDeleteProgram(p): the attached shaders are detached,
\* not deleted.
AfterDeleteProgram(g, p) ==
  [g EXCEPT !.progs = @ \ {p},
            !.linked = @ \ {p},
            !.attached = {e \in @ : e[1] # p}]

DeleteOps == {"glDeleteFramebuffers", "glDeleteTextures", "glDeleteProgram"}

\* glDeleteFramebuffers(1, &frameBuffer), glDeleteTextures(1, &tex),
\* glDeleteProgram(mProgram).
GlDelete(t) ==
  /\ proc = "running"
  /\ tstate[t] = "run"
  /\ pc[t] <= Len(Code(prog, t))
  /\ Ins(t).op \in DeleteOps
  /\ \E f \in FaultChoices :
       LET g == G(t)
           op == Ins(t).op
       IN
       GlCall(t, op, f, f, FALSE,
              CASE op = "glDeleteFramebuffers" -> AfterDeleteFramebuffer(g, Arg(t, Ins(t).a))
                [] op = "glDeleteTextures" -> AfterDeleteTexture(g, Arg(t, Ins(t).a))
                [] op = "glDeleteProgram" -> AfterDeleteProgram(g, loc[t].program), 0)
  /\ UNCHANGED << loc, outVars >>

\* if (infoLen > 1): the info log is fetched and printed.
LogFetchedAlways(infoLen) == infoLen >= 0

LogFetched(infoLen) == infoLen > 1

\* LoadShader(type, src): 0 when glCreateShader gives 0; on a failed compile
\* the log is fetched when infoLen > 1, the shader is deleted and 0 returned.
LoadShader(t) ==
  /\ At(t, "LoadShader")
  /\ \E created \in Outcomes, compiled \in Outcomes, infoLen \in 0..2 :
       LET g == G(t)
           n == NewName(g.shaders \cup g.progs)
           made == current[t] # NoContext /\ created
           good == made /\ compiled
           es == << Ev(t, "glCreateShader", IF made THEN n ELSE 0) >>
                 \o (IF made
                     THEN << Ev(t, "glCompileShader", IF compiled THEN 1 ELSE 0) >>
                     ELSE << >>)
                 \o (IF made /\ ~compiled /\ LogFetched(infoLen)
                     THEN << Ev(t, "glGetShaderInfoLog", infoLen) >> ELSE << >>)
                 \o (IF made /\ ~compiled
                     THEN << Ev(t, "glDeleteShader", n) >> ELSE << >>)
       IN
       /\ GlCallEv(t, "LoadShader", ~(created /\ compiled), FALSE, ~good,
                   IF good THEN [g EXCEPT !.shaders = @ \cup {n}] ELSE g, 0, es)
       /\ loc' = [loc EXCEPT ![t][Ins(t).a] = IF good THEN n ELSE 0]
  /\ UNCHANGED outVars

\* programObject = glCreateProgram(); if (programObject == 0) return 0;
GlCreateProgram(t) ==
  /\ At(t, "glCreateProgram")
  /\ \E created \in Outcomes :
       LET g == G(t)
           n == NewName(g.shaders \cup g.progs)
           good == current[t] # NoContext /\ created
       IN
       /\ GlCall(t, "glCreateProgram", ~created, FALSE, ~good,
                 IF good THEN [g EXCEPT !.progs = @ \cup {n}] ELSE g,
                 IF good THEN 0 ELSE Ins(t).k)
       /\ loc' = [loc EXCEPT ![t].programObject = IF good THEN n ELSE 0,
                             ![t].program = IF good THEN @ ELSE 0]
  /\ UNCHANGED outVars

\* glAttachShader(programObject, shader): GL_INVALID_VALUE for shader 0.
GlAttachShader(t) ==
  /\ At(t, "glAttachShader")
  /\ \E f \in FaultChoices :
       LET g == G(t)
           sh == loc[t][Ins(t).a]
           p == loc[t].programObject
       IN
       GlCall(t, "glAttachShader", f, f \/ sh \notin g.shaders, FALSE,
              [g EXCEPT !.attached = @ \cup {<< p, sh >>}], 0)
  /\ UNCHANGED << loc, outVars >>

\* A link that succeeds with a single stage attached.
LinkStatusOneStage(g, p, vs, fs, l) ==
  /\ l
  /\ (<< p, vs >> \in g.attached \/ << p, fs >> \in g.attached)

\* GL_LINK_STATUS after glLinkProgram(p) in GL state g, the driver willing (l):
\* an ES program links only with both a vertex and a fragment stage attached.
LinkStatus(g, p, vs, fs, l) ==
  /\ l
  /\ << p, vs >> \in g.attached
  /\ << p, fs >> \in g.attached

\* glLinkProgram and the GL_LINK_STATUS check: a program without both stages
\* does not link; an unlinked program is deleted and 0 returned.
GlLinkProgram(t) ==
  /\ At(t, "glLinkProgram")
  /\ \E l \in Outcomes, infoLen \in 0..2 :
       LET g == G(t)
           p == loc[t].programObject
           linked == /\ current[t] # NoContext
                     /\ LinkStatus(g, p, loc[t].vertexShader,
                                   loc[t].fragmentShader, l)
       IN
       /\ GlCallEv(t, "glLinkProgram", ~l, FALSE, ~linked,
                   IF linked THEN [g EXCEPT !.linked = @ \cup {p}]
                   ELSE AfterDeleteProgram(g, p), 0,
                   << Ev(t, "glLinkProgram", IF linked THEN 1 ELSE 0) >> \o
                   IF linked THEN << >>
                   ELSE (IF LogFetched(infoLen)
                         THEN << Ev(t, "glGetProgramInfoLog", infoLen) >>
                         ELSE << >>)
                        \o << Ev(t, "glDeleteProgram", p) >>)
       /\ loc' = [loc EXCEPT ![t].program = IF linked THEN p ELSE 0]
  /\ UNCHANGED outVars

\* assertOpenGLError(msg): glGetError() returns and clears the context's error.
AssertOpenGLError(t) ==
  /\ At(t, "assertOpenGLError")
  /\ LET c == current[t]
         e == IF c = NoContext THEN "none" ELSE gl[c].err
     IN
     /\ Note(t, FALSE, FALSE, "assertOpenGLError")
     /\ foreign' = (foreign \/ (c # NoContext /\ c # t))
     /\ gl' = IF c = NoContext THEN gl ELSE [gl EXCEPT ![c].err = "none"]
     /\ \E crash \in BOOLEAN :
          CASE c = NoContext /\ crash ->
                 /\ proc' = "crashed"
                 /\ UNCHANGED << pc, exitInfo >>
            [] c # NoContext /\ e # "none" /\ AssertIsFatal(prog) ->
                 /\ proc' = "exited"
                 /\ exitInfo' = << t, Ins(t).a, e >>
                 /\ pc' = pc
            [] OTHER ->
                 /\ Adv(t, 0)
                 /\ UNCHANGED << proc, exitInfo >>
  /\ UNCHANGED << pix, prog, tstate, joined, loc >>
  /\ UNCHANGED << dpy, display, config, allConfigCount, eglErr, surf, ctx, current,
                  curSurf, termCalls, liveAtTerm >>
  /\ UNCHANGED outVars

------------------------------------------------------------------------------
(* Host-side steps *)

\* A step that calls neither EGL nor GL.
NoCall(t) == last' = [last EXCEPT ![t] = << >>]

\* stbi_write_png(file, width, height, nr_channels, buffer.data(), stride).
StbiWritePng(t) ==
  /\ At(t, "stbi_write_png")
  /\ files' = [files EXCEPT ![Ins(t).a] = << t, buffer[t] >>]
  /\ writes' = [writes EXCEPT ![t] = Bump(@)]
  /\ lateCalls' = IF t \in setupFailed THEN lateCalls \cup {t} ELSE lateCalls
  /\ Adv(t, 0)
  /\ NoCall(t)
  /\ UNCHANGED << buffer, draws, reads, glVars, runVars, faults, foreign,
                  setupFailed, afterTerm, hist >>
  /\ UNCHANGED << dpy, display, config, allConfigCount, eglErr, surf, ctx, current,
                  curSurf, termCalls, liveAtTerm >>

hostVars == << dpy, display, config, allConfigCount, eglErr, surf, ctx, current,
               curSurf, termCalls, liveAtTerm, glVars, outVars, faults, foreign,
               setupFailed, afterTerm, hist >>

\* if (!mProgram) return 0;
IfProgram(t) ==
  /\ At(t, "ifProgram")
  /\ Adv(t, IF loc[t].program # 0 THEN Ins(t).k ELSE 0)
  /\ NoCall(t)
  /\ UNCHANGED << hostVars, runVars >>

\* int mRunning = 1; nothing assigns it afterwards.
mRunning == 1

\* A loop whose flag is cleared once an image has been written.
WhileCondCleared == writes["A"] = 0

\* The condition of while (mRunning).
WhileCond == mRunning # 0

\* while (mRunning) {
While(t) ==
  /\ At(t, "while")
  /\ Adv(t, IF WhileCond THEN 0 ELSE Ins(t).k)
  /\ NoCall(t)
  /\ UNCHANGED << hostVars, runVars >>

\* } of the while loop: back to its head.
EndWhile(t) ==
  /\ At(t, "endwhile")
  /\ pc' = [pc EXCEPT ![t] = @ - Ins(t).k]
  /\ NoCall(t)
  /\ UNCHANGED << hostVars, runVars >>

\* sleep(0.5): the argument converts to 0 seconds.
Sleep(t) ==
  /\ At(t, "sleep")
  /\ Adv(t, 0)
  /\ NoCall(t)
  /\ UNCHANGED << hostVars, runVars >>

\* pthread_create(&thread, NULL, thread_func, &glCtx).
PthreadCreate(t) ==
  /\ At(t, "pthread_create")
  /\ tstate' = [tstate EXCEPT ![Ins(t).a] = "run"]
  /\ Adv(t, 0)
  /\ NoCall(t)
  /\ UNCHANGED << hostVars, pix, prog, proc, exitInfo, joined >>

\* pthread_join(thread, NULL): returns once the thread function has returned.
PthreadJoin(t) ==
  /\ At(t, "pthread_join")
  /\ tstate[Ins(t).a] = "ret"
  /\ joined' = joined \cup {Ins(t).a}
  /\ Adv(t, 0)
  /\ NoCall(t)
  /\ UNCHANGED << hostVars, pix, prog, proc, exitInfo, tstate >>

\* return 0: from main it ends the process, from a worker it ends the thread.
Return(t) ==
  /\ At(t, "return")
  /\ IF t = "M"
     THEN proc' = "returned" /\ tstate' = tstate
     ELSE proc' = proc /\ tstate' = [tstate EXCEPT ![t] = "ret"]
  /\ NoCall(t)
  /\ UNCHANGED << hostVars, pix, prog, exitInfo, pc, joined >>

\* One step of thread t: the instruction at its program counter.
Step(t) ==
  \/ EglGetDisplay(t) \/ EglInitialize(t) \/ EglGetConfigs(t)
  \/ EglChooseConfig(t) \/ EglBindAPI(t)
  \/ EglCreatePbufferSurface(t) \/ EglCreateContext(t) \/ EglMakeCurrent(t)
  \/ EglDestroySurface(t) \/ EglDestroyContext(t) \/ EglTerminate(t)
  \/ EglQuery(t) \/ AssertEGLError(t)
  \/ GlGenFramebuffers(t) \/ GlBindFramebuffer(t) \/ GlGenTextures(t)
  \/ GlBindTexture(t) \/ GlTexImage2D(t) \/ GlFramebufferTexture2D(t)
  \/ GlMisc(t) \/ GlClear(t) \/ GlUseProgram(t) \/ GlDraw(t) \/ GlReadPixels(t)
  \/ GlDelete(t)
  \/ LoadShader(t) \/ GlCreateProgram(t) \/ GlAttachShader(t) \/ GlLinkProgram(t)
  \/ AssertOpenGLError(t)
  \/ StbiWritePng(t) \/ IfProgram(t) \/ While(t) \/ EndWhile(t) \/ Sleep(t)
  \/ PthreadCreate(t) \/ PthreadJoin(t) \/ Return(t)

Next == \E t \in Threads : Step(t)

Spec == Init /\ [][Next]_vars

\* The scheduler does not starve thread B: while it can take a step it
\* eventually takes one.  Nothing is assumed of main or of thread A.
FairSpec == Spec /\ WF_vars(Step("B"))

------------------------------------------------------------------------------
(* The pixel-size functions of offscreen_egl.cpp and the readback buffer size *)
(* the sessions compute inline.  GLsizei, GLint and int are 32 bits wide.    *)

\* INT_MAX and INT_MIN of a 32-bit int.
MaxInt == 2147483647
MinInt == (-MaxInt) - 1

Abs(x) == IF x < 0 THEN -x ELSE x

\* 32-bit addition that wraps around (two's complement).
AddW(x, y) ==
  IF x > 0 /\ y > 0 /\ x > MaxInt - y THEN ((x - MaxInt) - 1) + ((y - MaxInt) - 1)
  ELSE IF x < 0 /\ y < 0 /\ x < MinInt - y THEN ((x + MaxInt) + 1) + ((y + MaxInt) + 1)
  ELSE x + y

\* 32-bit negation that wraps around.
NegW(x) == IF x = MinInt THEN MinInt ELSE -x

\* The low 32 bits of a * b, as a signed value, for b >= 0.
RECURSIVE MulP(_, _)
MulP(a, b) ==
  IF b = 0 THEN 0
  ELSE LET h == MulP(AddW(a, a), b \div 2)
       IN IF b % 2 = 1 THEN AddW(h, a) ELSE h

\* The low 32 bits of a * b, as a signed value.
MulW(a, b) ==
  IF b >= 0 THEN MulP(a, b)
  ELSE IF b = MinInt THEN (IF a % 2 = 0 THEN 0 ELSE MinInt)
  ELSE NegW(MulP(a, -b))

\* a * b does not fit in an int: the signed multiplication is undefined.
MulOverflows(a, b) ==
  /\ a # 0
  /\ b # 0
  /\ IF a = MinInt THEN b # 1
     ELSE IF b = MinInt THEN a # 1
     ELSE /\ Abs(a) > MaxInt \div Abs(b)
          /\ ~ /\ (a < 0) # (b < 0)
               /\ Abs(a) = (MaxInt \div Abs(b)) + 1
               /\ MaxInt % Abs(b) = Abs(b) - 1

\* The values an overflowed signed multiplication may leave behind.
Undefined(a, b) == {MulW(a, b), 0, MaxInt}

ByteTypes == {"GL_BYTE", "GL_UNSIGNED_BYTE"}
ShortTypes == {"GL_SHORT", "GL_UNSIGNED_SHORT", "GL_UNSIGNED_SHORT_5_6_5",
               "GL_UNSIGNED_SHORT_4_4_4_4", "GL_UNSIGNED_SHORT_5_5_5_1",
               "GL_RGB565_OES", "GL_RGB5_A1_OES", "GL_RGBA4_OES"}
IntTypes == {"GL_INT", "GL_UNSIGNED_INT", "GL_FLOAT", "GL_FIXED",
             "GL_UNSIGNED_INT_24_8_OES"}
\* Types the switch has no case for.
OtherTypes == {"GL_HALF_FLOAT_OES", "GL_UNSIGNED_INT_2_10_10_10_REV_EXT"}
Types == ByteTypes \cup ShortTypes \cup IntTypes \cup OtherTypes

OneChannel == {"GL_ALPHA", "GL_LUMINANCE", "GL_DEPTH_COMPONENT", "GL_DEPTH_STENCIL_OES"}
TwoChannels == {"GL_LUMINANCE_ALPHA"}
ThreeChannels == {"GL_RGB"}
FourChannels == {"GL_RGBA", "GL_BGRA_EXT"}
\* Formats the switch has no case for (GL_RED and GL_BGR are compiled out).
OtherFormats == {"GL_RED", "GL_BGR", "GL_RGBA_INTEGER"}
Formats == OneChannel \cup TwoChannels \cup ThreeChannels \cup FourChannels
           \cup OtherFormats

\* A variant that multiplies the channel count of the format by the size of
\* the type, whatever the type.
glUtilsPixelBitSizeByFormat(format, type) ==
  LET components == IF format \in OneChannel THEN 1
                    ELSE IF format \in TwoChannels THEN 2
                    ELSE IF format \in ThreeChannels THEN 3
                    ELSE IF format \in FourChannels THEN 4
                    ELSE 0
      size == IF type \in ByteTypes THEN 8
              ELSE IF type \in ShortTypes THEN 16
              ELSE IF type \in IntTypes THEN 32
              ELSE 0
  IN components * size

\* int glUtilsPixelBitSize(GLenum format, GLenum type)
glUtilsPixelBitSize(format, type) ==
  LET componentsize == IF type \in ByteTypes THEN 8 ELSE 0
      bytype == IF type \in ShortTypes THEN 16
                ELSE IF type \in IntTypes THEN 32
                ELSE 0
      components == IF format \in OneChannel THEN 1
                    ELSE IF format \in TwoChannels THEN 2
                    ELSE IF format \in ThreeChannels THEN 3
                    ELSE IF format \in FourChannels THEN 4
                    ELSE 0
  IN IF bytype = 0 THEN components * componentsize ELSE bytype

\* GLsizei pixelDataSize(GLsizei width, GLsizei height, GLenum format, GLenum type):
\* the values it may return.  pixelsize * width is an int multiplication;
\* aligned_linesize * height is computed in size_t and cut to 32 bits on return.
pixelDataSize(width, height, format, type) ==
  IF width <= 0 \/ height <= 0 THEN {0}
  ELSE LET pixelsize == glUtilsPixelBitSize(format, type) \div 8
           alignment == 4
       IN IF MulOverflows(pixelsize, width)
          THEN {MulW(x, height) : x \in Undefined(pixelsize, width)}
          ELSE LET linesize == pixelsize * width
                   down == (linesize \div alignment) * alignment
                   aligned_linesize == IF down < linesize THEN AddW(down, alignment)
                                       ELSE down
               IN {MulW(aligned_linesize, height)}

\* GLsizei stride = nr_channels * width;
\* stride += (stride % 4) ? (4 - stride % 4) : 0;
\* the values stride may have.
InlineStride(width) ==
  LET nr_channels == 4
      strides == IF MulOverflows(nr_channels, width) THEN Undefined(nr_channels, width)
                 ELSE {nr_channels * width}
      \* C++ % truncates towards zero
      rem(x) == IF x >= 0 \/ x % 4 = 0 THEN x % 4 ELSE (x % 4) - 4
  IN {IF rem(x) # 0 THEN AddW(x, 4 - rem(x)) ELSE x : x \in strides}

\* GLsizei bufferSize = stride * height; the values it may have.
InlineBufferSize(stride, height) ==
  IF MulOverflows(stride, height) THEN Undefined(stride, height)
  ELSE {stride * height}

Widths == {-1, 0, 1, 2, 3, 5, 512, 32768, 536870912}
Heights == {-1, 0, 1, 3, 512, 16384}

pixProgVars == << prog, proc, exitInfo, pc, tstate, joined, dpy, display, config,
                 allConfigCount, eglErr, surf, ctx, current, curSurf, loc, gl, buffer,
                 files, draws, reads, writes, termCalls, liveAtTerm, faults, foreign,
                 setupFailed, lateCalls, afterTerm, hist, last >>

\* The functions are called on some width, height, format and type; the
\* program itself has not started.
PixelInit ==
  /\ InitProgram
  /\ prog = "single"
  /\ pix \in {[NoPix EXCEPT !.stage = "in", !.width = w, !.height = h,
                            !.format = f, !.type = ty] :
                w \in Widths, h \in Heights, f \in Formats, ty \in Types}

CallGlUtilsPixelBitSize ==
  /\ pix.stage = "in"
  /\ pix' = [pix EXCEPT !.stage = "bits",
                        !.bits = glUtilsPixelBitSize(pix.format, pix.type)]
  /\ UNCHANGED pixProgVars

CallPixelDataSize ==
  /\ pix.stage = "bits"
  /\ \E r \in pixelDataSize(pix.width, pix.height, pix.format, pix.type) :
       pix' = [pix EXCEPT !.stage = "size", !.size = r]
  /\ UNCHANGED pixProgVars

\* The inline computation of the sessions, on the same width and height.
ComputeInline ==
  /\ pix.stage = "size"
  /\ \E st \in InlineStride(pix.width) :
       \E b \in InlineBufferSize(st, pix.height) :
         pix' = [pix EXCEPT !.stage = "done", !.stride = st, !.bufferSize = b]
  /\ UNCHANGED pixProgVars

PixelNext == CallGlUtilsPixelBitSize \/ CallPixelDataSize \/ ComputeInline

PixelSpec == PixelInit /\ [][PixelNext]_vars

------------------------------------------------------------------------------
(* The claims *)

Multi == prog = "multi"

\* The position in thread t's table of the first instruction with this
\* operation and argument.
IndexOf(p, t, op, a) ==
  CHOOSE i \in 1..Len(Code(p, t)) :
    /\ Code(p, t)[i].op = op
    /\ Code(p, t)[i].a = a
    /\ \A j \in 1..(i - 1) : ~(Code(p, t)[j].op = op /\ Code(p, t)[j].a = a)

\* C1: in the two-session program eglTerminate is called at most once, and
\* only when both workers have returned and main has joined both.
C1_TerminateAfterJoin ==
  Multi =>
    /\ termCalls <= 1
    /\ (termCalls > 0 =>
          /\ joined = Workers
          /\ \A w \in Workers : tstate[w] = "ret")
    /\ (dpy = "term" => termCalls = 1)

C1_Witness ==
  /\ Multi
  /\ termCalls = 1
  /\ dpy = "term"
  /\ joined = Workers
  /\ writes["B"] = 1

\* C2: whenever the process has ended after the display was initialised, the
\* display has been released exactly once, and no surface or context was
\* still alive when it was released.
C2_DisplayReleasedOnceAfterDependents ==
  (proc \in {"exited", "returned"} /\ dpy \in {"init", "term"}) =>
    /\ dpy = "term"
    /\ termCalls = 1
    /\ liveAtTerm = {}

\* C3: in the two-session program a context is current on at most one
\* thread, that thread is the one that created it, and main has none.
C3_ContextAffinity ==
  Multi =>
    /\ \A t \in Threads : current[t] \in {NoContext, t}
    /\ \A t, u \in Threads :
         (current[t] # NoContext /\ current[t] = current[u]) => t = u
    /\ current["M"] = NoContext

C3_Witness ==
  /\ Multi
  /\ current["A"] = "A"
  /\ current["B"] = "B"
  /\ draws["A"] >= 1
  /\ draws["B"] >= 1
  /\ proc = "running"

\* What session t's image file holds once written: its own drawing, which
\* is undefined when it drew without a program.
ExpectedImage(t, shape) ==
  << t, << t, IF loc[t].program = 0 THEN "garbage" ELSE shape >> >>

\* C4: in the two-session program no worker ever uses a surface or context
\* (and so no GL object) that the other created, and each image file holds
\* what its own session drew, whatever the other session has done.
C4_SessionsIsolated ==
  Multi =>
    /\ ~foreign
    /\ files["img2.png"] \in {NoFile, ExpectedImage("B", "tri")}
    /\ files["img.png"] \in {NoFile, ExpectedImage("A", "quad")}

C4_Witness ==
  /\ Multi
  /\ files["img2.png"] = << "B", << "B", "tri" >> >>
  /\ files["img.png"] = << "A", << "A", "quad" >> >>
  /\ writes["A"] = 2

\* C5: in the two-session program a worker exists only once main holds an
\* initialised display and a chosen config, and the display stays
\* initialised for as long as a worker runs.
C5_InitBeforeWorkers ==
  Multi =>
    \A w \in Workers :
      /\ tstate[w] # "idle" => (display = TheDisplay /\ config = TheConfig
                                /\ dpy \in {"init", "term"})
      /\ tstate[w] = "run" => dpy = "init"

C5_Witness ==
  /\ Multi
  /\ tstate["A"] = "run"
  /\ tstate["B"] = "run"
  /\ surf["A"] = "live"
  /\ ctx["B"] = "live"

\* C6: in the two-session program, while no driver call has failed, thread A
\* is at or before the end of its loop and has not returned, main has not
\* got past its join on thread A, and eglTerminate has not been called.
C6_SessionANeverLeavesLoop ==
  (Multi /\ faults = 0) =>
    /\ pc["A"] <= IndexOf("multi", "A", "endwhile", "")
    /\ tstate["A"] # "ret"
    /\ pc["M"] <= IndexOf("multi", "M", "pthread_join", "A")
    /\ "A" \notin joined
    /\ termCalls = 0

C6_Witness ==
  /\ Multi
  /\ faults = 0
  /\ draws["A"] = MaxCount
  /\ writes["A"] = MaxCount
  /\ tstate["B"] = "ret"
  /\ pc["M"] = IndexOf("multi", "M", "pthread_join", "A")

\* Session B has run to its end.
BDone == tstate["B"] = "ret"

\* C7: session B draws, reads back and writes img2.png at most once each; when
\* its thread has returned it has done each exactly once and has destroyed
\* its surface and context; and under fair scheduling, unless a driver call
\* fails (or an undefined call takes the process down), thread B, once
\* started, returns.
C7_SessionBOnePass ==
  /\ [](Multi =>
          /\ draws["B"] <= 1 /\ reads["B"] <= 1 /\ writes["B"] <= 1
          /\ (BDone =>
                /\ draws["B"] = 1 /\ reads["B"] = 1 /\ writes["B"] = 1
                /\ files["img2.png"][1] = "B"
                /\ surf["B"] = "dead" /\ ctx["B"] = "dead"))
  /\ ((Multi /\ tstate["B"] = "run")
        ~> (BDone \/ faults > 0 \/ proc = "crashed"))

C7_Witness ==
  /\ Multi
  /\ BDone
  /\ faults = 0
  /\ draws["A"] = MaxCount
  /\ tstate["A"] = "run"

\* C8: no thread issues a draw, a readback or an image write after one of
\* its setup-phase driver calls has failed.
C8_SetupFailureStopsThread == lateCalls = {}

\* C9: the process is never ended by the error check of a teardown step.
C9_TeardownErrorNotFatal ==
  proc = "exited" => exitInfo[3] # "teardown"

\* C10: in the two-session program the process is never ended by the error
\* check of a draw call or a readback.
C10_DrawReadErrorNotFatal ==
  (Multi /\ proc = "exited") => exitInfo[3] \notin {"draw", "read"}

\* The calls of history h, without what went with them.
Ops(h) == [i \in 1..Len(h) |-> h[i][1]]

\* Call a was issued, and before any call b.
Before(h, a, b) ==
  \E i \in 1..Len(h) :
    /\ h[i][1] = a
    /\ \A j \in 1..i : h[j][1] # b

\* Call a was issued.
Issued(h, a) == \E i \in 1..Len(h) : h[i][1] = a

\* The calls that delete a GL object.
GlDeletes == DeleteOps \cup {"glDeleteShader"}

\* C11: in every thread of both programs no GL object is deleted once
\* eglDestroySurface has been called, eglDestroySurface is not called once
\* eglDestroyContext has been called, and a thread that has called
\* eglDestroyContext has before that deleted its framebuffer and its texture
\* and called eglDestroySurface.
C11_TeardownOrder ==
  \A t \in Threads :
    LET h == hist[t] IN
    /\ \A i, j \in 1..Len(h) :
         i < j =>
           /\ ~(h[i][1] = "eglDestroySurface" /\ h[j][1] \in GlDeletes)
           /\ ~(h[i][1] = "eglDestroyContext"
                /\ h[j][1] \in GlDeletes \cup {"eglDestroySurface"})
    /\ Issued(h, "eglDestroyContext") =>
         /\ Before(h, "glDeleteFramebuffers", "eglDestroySurface")
         /\ Before(h, "glDeleteTextures", "eglDestroySurface")
         /\ Before(h, "eglDestroySurface", "eglDestroyContext")

C11_Witness ==
  /\ Multi
  /\ BDone
  /\ Issued(hist["B"], "glDeleteProgram")
  /\ Ops(SubSeq(hist["B"], Len(hist["B"]) - 3, Len(hist["B"])))
       = << "glDeleteFramebuffers", "glDeleteTextures", "eglDestroySurface",
            "eglDestroyContext" >>

\* The kind of resource a call creates or destroys.
Kind(op) ==
  CASE op \in {"eglCreatePbufferSurface", "eglDestroySurface"} -> "surface"
    [] op \in {"eglCreateContext", "eglDestroyContext"} -> "context"
    [] op \in {"glGenFramebuffers", "glDeleteFramebuffers"} -> "framebuffer"
    [] op \in {"glGenTextures", "glDeleteTextures"} -> "texture"
    [] op \in {"glCreateShader", "glDeleteShader"} -> "shader"
    [] op \in {"glCreateProgram", "glDeleteProgram"} -> "program"
    [] OTHER -> "none"

\* In history h a resource of kind a was created before any of kind b.
CreatedBefore(h, a, b) ==
  \E i \in 1..Len(h) :
    /\ h[i][1] \in CreateOps
    /\ Kind(h[i][1]) = a
    /\ \A j \in 1..i : ~(h[j][1] \in CreateOps /\ Kind(h[j][1]) = b)

\* The calls that destroy what a session holds from its setup to its
\* teardown: the framebuffer, the texture, the surface and the context.
SessionDestroys == {"glDeleteFramebuffers", "glDeleteTextures", "eglDestroySurface",
                    "eglDestroyContext"}

C13_DrawOnlyWhileCurrent ==
  \A t \in Threads :
    \A i \in 1..Len(hist[t]) :
      hist[t][i][1] \in {"glDraw", "glReadPixels"} => hist[t][i][2] # NoContext

\* C14 (as stated): once eglTerminate has been called, the process issues no
\* further driver call of any kind.
C14_NoCallAfterTerminate == afterTerm = {}

\* C14: once eglTerminate has been called, the only driver call still issued
\* is the error check that follows it (assertEGLError, which reads
\* eglGetError); no thread issues any other EGL or GL call.
C14_OnlyErrorCheckAfterTerminate == afterTerm \subseteq {"assertEGLError"}

C14_Witness ==
  /\ proc = "returned"
  /\ termCalls = 1
  /\ afterTerm = {"assertEGLError"}
  /\ faults = 0
  /\ \A t \in {"A", "B"} : tstate[t] # "run"

\* The smallest multiple of 4 that is >= x, for 0 <= x <= MaxInt - 3.
RoundUp4(x) == ((x + 3) \div 4) * 4

\* C15: for width > 0 and height > 0 pixelDataSize returns S * height, S being
\* the smallest multiple of 4 >= (bits_per_pixel / 8) * width; for width <= 0
\* or height <= 0 it returns 0.  (A product that does not fit in the 32-bit
\* return type cannot be the value returned.)
C15_PixelDataSizeIsAlignedStrideTimesHeight ==
  pix.stage \in {"size", "done"} =>
    IF pix.width <= 0 \/ pix.height <= 0 THEN pix.size = 0
    ELSE LET bytes == pix.bits \div 8
         IN /\ ~MulOverflows(bytes, pix.width)
            /\ bytes * pix.width <= MaxInt - 3
            /\ ~MulOverflows(RoundUp4(bytes * pix.width), pix.height)
            /\ pix.size = RoundUp4(bytes * pix.width) * pix.height

\* C16: glUtilsPixelBitSize returns 0 for every pair whose type is unrecognised
\* or whose format is unrecognised.
C16_UnrecognisedYieldsZero ==
  pix.stage # "in" =>
    ((pix.type \in OtherTypes \/ pix.format \in OtherFormats) => pix.bits = 0)

\* C17: glUtilsPixelBitSize decides by type first: 16 for every short or
\* packed-16 type and 32 for every int, float or fixed type, whatever the
\* format; for the byte types 8 times the channel count of the format.
C17_TypeDecidesFirst ==
  pix.stage # "in" =>
    /\ pix.type \in {"GL_SHORT", "GL_UNSIGNED_SHORT", "GL_UNSIGNED_SHORT_5_6_5",
                     "GL_UNSIGNED_SHORT_4_4_4_4", "GL_UNSIGNED_SHORT_5_5_5_1",
                     "GL_RGB565_OES", "GL_RGB5_A1_OES", "GL_RGBA4_OES"}
         => pix.bits = 16
    /\ pix.type \in {"GL_INT", "GL_UNSIGNED_INT", "GL_FLOAT", "GL_FIXED",
                     "GL_UNSIGNED_INT_24_8_OES"}
         => pix.bits = 32
    /\ pix.type \in {"GL_BYTE", "GL_UNSIGNED_BYTE"} =>
         /\ pix.format \in {"GL_ALPHA", "GL_LUMINANCE", "GL_DEPTH_COMPONENT"}
              => pix.bits = 8
         /\ pix.format = "GL_LUMINANCE_ALPHA" => pix.bits = 16
         /\ pix.format = "GL_RGB" => pix.bits = 24
         /\ pix.format \in {"GL_RGBA", "GL_BGRA_EXT"} => pix.bits = 32

\* A packed-16 type met a four-channel format: the answer is 16, not 64.
C17_Witness ==
  /\ pix.stage = "bits"
  /\ pix.type = "GL_UNSIGNED_SHORT_5_6_5"
  /\ pix.format = "GL_RGBA"
  /\ pix.bits = 16

Prev(t) == Code(prog, t)[pc[t] - 1]

\* The calls of thread t's latest step include op with value n.
Called(t, op, n) == \E i \in 1..Len(last[t]) : last[t][i][1] = op /\ last[t][i][3] = n

\* C19: a shader that failed to compile is deleted before LoadShader returns
\* and LoadShader returns 0; a program that failed to link is deleted before
\* the builder returns and the builder returns 0; no handle returned names an
\* object deleted by the call; an info log is fetched only when its reported
\* length is greater than 1.
C19_FailedBuildDeletesAndReturnsZero ==
  \A t \in Threads :
    LET es == last[t]
        g == G(t)
    IN
    /\ Called(t, "glCompileShader", 0) =>
         /\ es[1][1] = "glCreateShader"
         /\ es[1][3] # 0
         /\ es[Len(es)] = Ev(t, "glDeleteShader", es[1][3])
         /\ es[1][3] \notin g.shaders
         /\ Prev(t).op = "LoadShader"
         /\ loc[t][Prev(t).a] = 0
    /\ Called(t, "glCompileShader", 1) =>
         /\ ~ \E n \in 0..MaxName : Called(t, "glDeleteShader", n)
         /\ loc[t][Prev(t).a] = es[1][3]
         /\ loc[t][Prev(t).a] \in g.shaders
    /\ Called(t, "glLinkProgram", 0) =>
         /\ es[Len(es)] = Ev(t, "glDeleteProgram", loc[t].programObject)
         /\ loc[t].programObject \notin g.progs
         /\ loc[t].program = 0
    /\ Called(t, "glLinkProgram", 1) =>
         /\ ~ \E n \in 0..MaxName : Called(t, "glDeleteProgram", n)
         /\ loc[t].program = loc[t].programObject
         /\ loc[t].program \in g.progs
    /\ \A i \in 1..Len(es) :
         /\ es[i][1] \in {"glGetShaderInfoLog", "glGetProgramInfoLog"} => es[i][3] > 1
         /\ (es[i][1] \in {"glDeleteShader", "glDeleteProgram"} /\ es[i][3] # 0) =>
              es[i][3] \notin {loc[t].vertexShader, loc[t].fragmentShader,
                               loc[t].program}

\* A compile failed with a log of length 2: the log was fetched, the shader
\* deleted and 0 returned.
C19_Witness ==
  \E t \in Threads :
    /\ Called(t, "glCompileShader", 0)
    /\ Called(t, "glGetShaderInfoLog", 2)
    /\ \E n \in 1..MaxName : Called(t, "glDeleteShader", n)
    /\ loc[t][Prev(t).a] = 0

\* C20: once a shader stage of thread t has failed to compile, the builder
\* gives t no program (the handle stays 0), no program of t's build is linked,
\* and every draw t issues afterwards is issued with program 0.
C20_FailedStageGivesNoProgram ==
  \A t \in Threads :
    \A i \in 1..Len(hist[t]) :
      hist[t][i][1] = "glDeleteShader" =>
        /\ loc[t].program = 0
        /\ current[t] # NoContext => loc[t].programObject \notin G(t).linked
        /\ \A j \in (i + 1)..Len(hist[t]) :
             hist[t][j][1] = "glDraw" => hist[t][j][3] = 0

\* A stage failed to compile, the builder ran to its end and returned 0, and
\* the draw that followed used program 0.
C20_Witness ==
  \E t \in Threads :
    \E i \in 1..Len(hist[t]) :
      /\ hist[t][i][1] = "glDeleteShader"
      /\ \E j \in (i + 1)..Len(hist[t]) : hist[t][j][1] = "glDeleteProgram"
      /\ \E j \in (i + 1)..Len(hist[t]) : hist[t][j] = Ev(t, "glDraw", 0)
      /\ loc[t].program = 0

\* C21: when a session's context has been destroyed, every shader object and
\* every program object created in it has been deleted before.
C21_ShadersAndProgramsDeletedBeforeContext ==
  \A c \in Threads :
    ctx[c] = "dead" => gl[c].shaders = {} /\ gl[c].progs = {}

\* Thread t is about to issue a draw or a readback.
AtDrawOrRead(t) == At(t, "glDraw") \/ At(t, "glReadPixels")

\* In the GL state of thread t the session's own framebuffer is the bound
\* render target and its full-size color texture is attached to slot 0.
OwnTargetBound(t) ==
  LET g == G(t) IN
  /\ current[t] = t
  /\ loc[t].frameBuffer # 0
  /\ g.boundFb = loc[t].frameBuffer
  /\ loc[t].tex # 0
  /\ g.attach[g.boundFb] = loc[t].tex
  /\ g.img[loc[t].tex] # NoImage

\* C22: at every draw call and every readback call the session's own
\* framebuffer is bound and its color texture is attached to color slot 0.
C22_OwnTargetAtDrawAndRead ==
  \A t \in Threads : AtDrawOrRead(t) => OwnTargetBound(t)

\* C23: in the two-session program "img.png" is written by thread A only and
\* "img2.png" by thread B only, main writes no file, and whenever a thread
\* writes a file it has read pixels back into its buffer before: the write
\* follows a successful glReadPixels of the same thread and the file holds
\* what that readback put into the buffer.
C23_OwnFileAfterOwnReadback ==
  Multi =>
    /\ files["img.png"][1] \in {"-", "A"}
    /\ files["img2.png"][1] \in {"-", "B"}
    /\ writes["M"] = 0
    /\ \A t \in Workers :
         /\ writes[t] <= reads[t]
         /\ At(t, "stbi_write_png") =>
              /\ Ins(t).a = (IF t = "A" THEN "img.png" ELSE "img2.png")
              /\ Code(prog, t)[pc[t] - 2].op = "glReadPixels"
              /\ buffer[t] = TargetImage(G(t))
              /\ buffer[t] # Zeros
    /\ \A f \in FileNames : files[f] # NoFile => files[f][2] # Zeros

\* Both files have been written, each by its own session, while both
\* sessions were running.
C23_Witness ==
  /\ Multi
  /\ files["img.png"][1] = "A"
  /\ files["img2.png"][1] = "B"
  /\ reads["A"] > 0
  /\ reads["B"] > 0
  /\ tstate["A"] = "run"

\* Thread t has finished creating its render target and is about to build
\* its program.
CreationEnded(t) == At(t, "LoadShader") /\ Ins(t).a = "vertexShader"

\* Since it attached the texture (and since its previous draw) thread t has
\* executed a glBindFramebuffer(GL_FRAMEBUFFER, frameBuffer).
BindsInPass(t) ==
  \E j \in 1..(pc[t] - 1) :
    /\ Code(prog, t)[j].op = "glBindFramebuffer"
    /\ Code(prog, t)[j].a = "frameBuffer"
    /\ \A i \in (j + 1)..(pc[t] - 1) :
         Code(prog, t)[i].op \notin {"glFramebufferTexture2D", "glDraw"}

WaitOps == {"pthread_join", "sleep"}

\* C25: thread B exists only once thread A has been created, and a worker
\* never waits for the other: its code holds no wait, and a running worker
\* can take its next step whatever the other worker has or has not done.
C25_AFirstAndNoWaiting ==
  Multi =>
    /\ tstate["B"] # "idle" => tstate["A"] # "idle"
    /\ \A w \in Workers :
         /\ \A i \in 1..Len(Code(prog, w)) : Code(prog, w)[i].op \notin WaitOps
         /\ (proc = "running" /\ tstate[w] = "run") => ENABLED Step(w)

\* Session B has issued its first driver calls while session A, created
\* before it, has issued none.
C25_Witness ==
  /\ Multi
  /\ tstate["A"] = "run"
  /\ pc["A"] = 1
  /\ hist["A"] = << >>
  /\ tstate["B"] = "run"
  /\ Len(hist["B"]) > 0
  /\ ctx["B"] = "live"

\* The instructions that call OpenGL (assertOpenGLError calls glGetError).
GlOps == {"glGenFramebuffers", "glBindFramebuffer", "glGenTextures", "glBindTexture",
          "glTexImage2D", "glFramebufferTexture2D", "glMisc", "glClear",
          "glUseProgram", "glDraw", "glReadPixels", "glDeleteFramebuffers",
          "glDeleteTextures", "glDeleteProgram", "LoadShader", "glCreateProgram",
          "glAttachShader", "glLinkProgram", "assertOpenGLError"}

\* C26: a thread that is about to issue an OpenGL call has a rendering
\* context current; the main thread of the two-session program is never
\* about to issue one.
C26_GlCallsHaveContext ==
  \A t \in Threads :
    (/\ proc = "running"
     /\ tstate[t] = "run"
     /\ pc[t] <= Len(Code(prog, t))
     /\ Ins(t).op \in GlOps) =>
       /\ current[t] # NoContext
       /\ ~(Multi /\ t = "M")

\* C27: when a worker of the two-session program has returned from its
\* thread function, the surface, the context, the framebuffers and the
\* textures it created have all been destroyed.
C27_WorkerReturnsWithNothingLeft ==
  Multi =>
    \A w \in Workers :
      tstate[w] = "ret" =>
        /\ surf[w] # "live"
        /\ ctx[w] # "live"
        /\ gl[w].fbs = {}
        /\ gl[w].texs = {}

====
